---- MODULE Spec2Model ----
(***************************************************************************)
(* A model of the log-structured key-value store of src/practice2.rs       *)
(* (KvStore: open, set, get, remove, compact) over a directory of          *)
(* numbered segment files, together with the in-memory reference store of  *)
(* src/practice1.rs driven by the same operations.                         *)
(*                                                                         *)
(* A segment file is a sequence of bytes.  One model byte stands for one   *)
(* lexical unit of the serde_json text of a Command: the constant framing  *)
(*     {"Set":{"key":"      ->  "{S"                                       *)
(*     {"Remove":{"key":"   ->  "{R"                                       *)
(*     ","value":"          ->  ","                                        *)
(*     "}}                  ->  "}"                                        *)
(* and every character of a key or a value is one byte of its own.         *)
(* Records are therefore variable-length and self-delimiting, as in the    *)
(* program, and a byte range cut at the wrong place does not decode.       *)
(***************************************************************************)
EXTENDS Integers, Sequences, FiniteSets, TLC

\* ------------------------------------------------------------------ bounds
\* Largest generation number a segment may get in the model.
MaxGen == 4
\* Largest total number of bytes in the directory before a set/remove.
MaxDisk == 12
\* Largest reader.pos at which the model still issues a get.
MaxReaderPos == 10

\* Largest number of records of a log handed to the loader on its own.
MaxLogRecords == 3

\* practice2.rs:12 -- 1024 * 1024 in the program; scaled to the model's
\* record sizes (5..6 bytes a Set record): one displaced 5-byte record
\* stays at the threshold, any further stale record crosses it.
COMPACTION_THRESHOLD == 5

\* Keys and values are strings: sequences of characters.
Keys == {<<"a">>, <<"b">>}
Values == {<<"x">>, <<"y", "y">>}
\* BTreeMap<String, _> iterates in ascending key order.
KeyOrder == <<(<<"a">>), (<<"b">>)>>

Framing == {"{S", "{R", ",", "}"}

NoVal == <<>>

Min(a, b) == IF a < b THEN a ELSE b

\* ------------------------------------------------------------ Command
\* enum Command { Set { key, value }, Remove { key } }
CmdSet(key, value) == [type |-> "Set", key |-> key, value |-> value]
CmdRemove(key) == [type |-> "Remove", key |-> key, value |-> NoVal]

\* serde_json::to_writer(&cmd): the bytes of one record.
Serialize(cmd) ==
    IF cmd.type = "Set"
    THEN <<"{S">> \o cmd.key \o <<",">> \o cmd.value \o <<"}">>
    ELSE <<"{R">> \o cmd.key \o <<"}">>

\* First index j >= i of bytes that is not a string character (Len+1 if none).
RECURSIVE ScanChars(_, _)
ScanChars(bytes, i) ==
    IF i > Len(bytes) \/ bytes[i] \in Framing THEN i ELSE ScanChars(bytes, i + 1)

\* Decode one Command from bytes starting at index i (1-based).
\* ok: next is the index after the record.  ~ok: next is the index of the
\* byte the decoder stopped at (Len+1: the input ended inside a record).
Decode(bytes, i) ==
    LET bad(at) == [ok |-> FALSE, cmd |-> CmdRemove(<<>>), next |-> at]
    IN IF i > Len(bytes) THEN bad(i)
       ELSE IF bytes[i] = "{S" THEN
         LET j == ScanChars(bytes, i + 1) IN
         IF j > Len(bytes) \/ bytes[j] # "," THEN bad(j)
         ELSE LET m == ScanChars(bytes, j + 1) IN
              IF m > Len(bytes) \/ bytes[m] # "}" THEN bad(m)
              ELSE [ok |-> TRUE,
                    cmd |-> CmdSet(SubSeq(bytes, i + 1, j - 1), SubSeq(bytes, j + 1, m - 1)),
                    next |-> m + 1]
       ELSE IF bytes[i] = "{R" THEN
         LET j == ScanChars(bytes, i + 1) IN
         IF j > Len(bytes) \/ bytes[j] # "}" THEN bad(j)
         ELSE [ok |-> TRUE, cmd |-> CmdRemove(SubSeq(bytes, i + 1, j - 1)), next |-> j + 1]
       ELSE bad(i)

\* serde_json::from_reader over exactly these bytes: one value, then end of
\* input.  consumed: the bytes the decoder took from the reader.
FromReader(bytes) ==
    LET d == Decode(bytes, 1) IN
    IF d.ok /\ d.next = Len(bytes) + 1
    THEN [ok |-> TRUE, cmd |-> d.cmd, consumed |-> Len(bytes)]
    ELSE [ok |-> FALSE, cmd |-> d.cmd, consumed |-> Min(d.next, Len(bytes))]

\* ------------------------------------------------------------ CommandPos
\* impl From<(u64, Range<u64>)> for CommandPos
CommandPos(gen, start, end) == [gen |-> gen, pos |-> start, len |-> end - start]

\* ------------------------------------------------------------ readers
\* BufReaderWithPos: pos is the wrapper's own counter, off the offset of the
\* underlying stream (the next byte a read delivers).
\* BufReaderWithPos::new on a freshly opened file.
NewReader == [pos |-> 0, off |-> 0]

\* BufReaderWithPos::seek(SeekFrom::Start(p)): the inner seek returns the
\* resulting absolute offset p, which the wrapper adds to pos.
ReaderSeek(r, p) == [pos |-> r.pos + p, off |-> p]

\* BufReaderWithPos::read: n bytes delivered.
ReaderAdvance(r, n) == [pos |-> r.pos + n, off |-> r.off + n]

\* The bytes reader.take(len) delivers from a file, from the stream offset.
Take(file, r, len) == SubSeq(file, r.off + 1, Min(r.off + len, Len(file)))

\* ------------------------------------------------------------ writer
\* BufWriterWithPos: pos counts the bytes handed to the buffer, buf holds
\* the bytes not yet drained to the file.
\* BufWriterWithPos::new on a file opened for append (always a new, empty one).
NewWriter == [pos |-> 0, buf |-> <<>>]

\* BufWriterWithPos::write
WriterWrite(w, bytes) == [pos |-> w.pos + Len(bytes), buf |-> w.buf \o bytes]

\* ------------------------------------------------------------ the store
\* A store value S is the directory plus the fields of struct KvStore:
\*   dir          gen -> contents of the file <gen>.log
\*   writer       BufWriterWithPos of segment current_gen
\*   readers      HashMap<u64, BufReaderWithPos<File>>
\*   index_map    BTreeMap<String, CommandPos>
\*   uncompacted, current_gen
Remap(f, keep) == [x \in keep |-> f[x]]
EmptyMap == [x \in {} |-> x]

\* A flush that leaves the bytes in the buffer.
WriterNoFlush(S) == S

\* A flush into a file not opened for append: the bytes land at its start.
WriterFlushAtStart(S) ==
    [S EXCEPT !.dir = [S.dir EXCEPT ![S.current_gen] =
                          S.writer.buf \o SubSeq(@, Len(S.writer.buf) + 1, Len(@))],
              !.writer = [S.writer EXCEPT !.buf = <<>>]]

\* self.writer.flush(): the buffered bytes are appended to the active file.
WriterFlush(S) ==
    [S EXCEPT !.dir = [S.dir EXCEPT ![S.current_gen] = @ \o S.writer.buf],
              !.writer = [S.writer EXCEPT !.buf = <<>>]]

\* new_log_file(path, gen, readers): create <gen>.log if missing, install a
\* reader for it; the writer it returns is NewWriter.
new_log_file(S, gen) ==
    [S EXCEPT !.dir = IF gen \in DOMAIN S.dir THEN S.dir ELSE (gen :> <<>>) @@ S.dir,
              !.readers = (gen :> NewReader) @@ S.readers]

\* sorted_generation_list(path): the generations of the *.log files, ascending.
RECURSIVE SortSet(_)
SortSet(G) ==
    IF G = {} THEN <<>>
    ELSE LET m == CHOOSE x \in G : \A y \in G : x <= y
         IN <<m>> \o SortSet(G \ {m})

sorted_generation_list(dir) == SortSet(DOMAIN dir)

\* A replay that does not count the Remove record itself.
RemoveRecordUncounted(pos, new_pos) == 0

\* uncompacted += new_pos - pos, for a Remove record spanning [pos, new_pos)
RemoveRecordStale(pos, new_pos) == new_pos - pos

\* A replay that takes a Remove of a key without entry for an error.
RECURSIVE LoadFromStrict(_, _, _, _, _)
LoadFromStrict(gen, file, pos, index, unc) ==
    IF pos >= Len(file)
    THEN [ok |-> TRUE, index_map |-> index, uncompacted |-> unc]
    ELSE LET d == Decode(file, pos + 1)
             new_pos == d.next - 1
             key == d.cmd.key
             old == IF key \in DOMAIN index THEN index[key].len ELSE 0
         IN IF ~d.ok THEN [ok |-> FALSE, index_map |-> index, uncompacted |-> unc]
            ELSE IF d.cmd.type = "Set"
            THEN LoadFromStrict(gen, file, new_pos,
                                (key :> CommandPos(gen, pos, new_pos)) @@ index,
                                unc + old)
            ELSE IF key \notin DOMAIN index
            THEN [ok |-> FALSE, index_map |-> index, uncompacted |-> unc]
            ELSE LoadFromStrict(gen, file, new_pos,
                                Remap(index, DOMAIN index \ {key}),
                                unc + old + RemoveRecordStale(pos, new_pos))

\* load(gen, reader, index_map): replay one segment from offset pos.
RECURSIVE LoadFrom(_, _, _, _, _)
LoadFrom(gen, file, pos, index, unc) ==
    IF pos >= Len(file)
    THEN [ok |-> TRUE, index_map |-> index, uncompacted |-> unc]
    ELSE LET d == Decode(file, pos + 1)
             new_pos == d.next - 1
             key == d.cmd.key
             old == IF key \in DOMAIN index THEN index[key].len ELSE 0
         IN IF ~d.ok THEN [ok |-> FALSE, index_map |-> index, uncompacted |-> unc]
            ELSE IF d.cmd.type = "Set"
            THEN LoadFrom(gen, file, new_pos,
                          (key :> CommandPos(gen, pos, new_pos)) @@ index,
                          unc + old)
            ELSE LoadFrom(gen, file, new_pos,
                          Remap(index, DOMAIN index \ {key}),
                          unc + old + RemoveRecordStale(pos, new_pos))

load(gen, file, index) == LoadFrom(gen, file, 0, index, 0)

\* KvStore::open, the loop over gen_list from its i-th element.
RECURSIVE OpenLoop(_, _, _, _, _, _)
OpenLoop(dir, gen_list, i, readers, index, unc) ==
    IF i > Len(gen_list)
    THEN [ok |-> TRUE, readers |-> readers, index_map |-> index, uncompacted |-> unc]
    ELSE LET gen == gen_list[i]
             l == load(gen, dir[gen], index)
             \* the replay has read the whole file through the reader
             reader == ReaderAdvance(ReaderSeek(NewReader, 0), Len(dir[gen]))
         IN IF ~l.ok
            THEN [ok |-> FALSE, readers |-> readers, index_map |-> index, uncompacted |-> unc]
            ELSE OpenLoop(dir, gen_list, i + 1, (gen :> reader) @@ readers,
                          l.index_map, unc + l.uncompacted)

\* A generation taken from the number of segments instead of the largest one.
OpenGenByCount(gen_list) == Len(gen_list) + 1

\* current_gen = gen_list.last().unwrap_or(&0) + 1
OpenGen(gen_list) == (IF Len(gen_list) = 0 THEN 0 ELSE gen_list[Len(gen_list)]) + 1

\* KvStore::open(path) on directory contents dir.
open(dir) ==
    LET gen_list == sorted_generation_list(dir)
        o == OpenLoop(dir, gen_list, 1, EmptyMap, EmptyMap, 0)
        current_gen == OpenGen(gen_list)
    IN [ok |-> o.ok,
        store |-> new_log_file([dir |-> dir, writer |-> NewWriter, readers |-> o.readers,
                                index_map |-> o.index_map, uncompacted |-> o.uncompacted,
                                current_gen |-> current_gen], current_gen)]

\* KvStore::compact, the copy loop from the i-th key of the key order, with
\* the compaction writer cw.
RECURSIVE CompactLoop(_, _, _, _, _, _)
CompactLoop(S, compaction_gen, i, cw, new_pos, order) ==
    IF i > Len(order) THEN [store |-> S, cw |-> cw]
    ELSE IF order[i] \notin DOMAIN S.index_map
    THEN CompactLoop(S, compaction_gen, i + 1, cw, new_pos, order)
    ELSE LET cmd_pos == S.index_map[order[i]]
             reader == S.readers[cmd_pos.gen]
             sought == IF reader.pos # cmd_pos.pos THEN ReaderSeek(reader, cmd_pos.pos)
                       ELSE reader
             bytes == Take(S.dir[cmd_pos.gen], sought, cmd_pos.len)
             len == Len(bytes)
         IN CompactLoop(
              [S EXCEPT !.readers[cmd_pos.gen] = ReaderAdvance(sought, len),
                        !.index_map[order[i]] = CommandPos(compaction_gen, new_pos, new_pos + len)],
              compaction_gen, i + 1, WriterWrite(cw, bytes), new_pos + len, order)

\* A filter that spares the old active segment.
StaleGensOffByOne(readers, compaction_gen) == {g \in DOMAIN readers : g < compaction_gen - 1}

\* A filter that also takes the compaction segment.
StaleGensInclusive(readers, compaction_gen) == {g \in DOMAIN readers : g <= compaction_gen}

\* The generations compact removes: readers.keys().filter(|k| k < compaction_gen)
StaleGens(readers, compaction_gen) == {g \in DOMAIN readers : g < compaction_gen}

\* A compaction generation above the new active one.
CompactionGenAbove(current_gen) == current_gen + 3

\* let compaction_gen = self.current_gen + 1
CompactionGen(current_gen) == current_gen + 1

\* self.current_gen += 2
NewActiveGen(current_gen) == current_gen + 2

\* KvStore::compact
compact(S) ==
    LET compaction_gen == CompactionGen(S.current_gen)
        \* the old active writer is dropped (BufWriter flushes on drop)
        S1 == [WriterFlush(S) EXCEPT !.current_gen = NewActiveGen(S.current_gen),
                                     !.writer = NewWriter]
        S2 == new_log_file(new_log_file(S1, S1.current_gen), compaction_gen)
        c == CompactLoop(S2, compaction_gen, 1, NewWriter, 0, KeyOrder)
        S3 == [c.store EXCEPT !.dir[compaction_gen] = @ \o c.cw.buf]
        stales_gens == StaleGens(S3.readers, compaction_gen)
    IN [S3 EXCEPT !.readers = Remap(S3.readers, DOMAIN S3.readers \ stales_gens),
                  !.dir = Remap(S3.dir, DOMAIN S3.dir \ stales_gens),
                  !.uncompacted = 0]

\* A displaced entry that is never counted.
DisplacedUncounted(index, key) == 0

\* The length of the entry an insert or remove displaces (old_cmd.len), 0 if none.
Displaced(index, key) == IF key \in DOMAIN index THEN index[key].len ELSE 0

\* A trigger that fires already at the threshold.
AtThreshold(uncompacted) == uncompacted >= COMPACTION_THRESHOLD

\* if self.uncompacted > COMPACTION_THRESHOLD
OverThreshold(uncompacted) == uncompacted > COMPACTION_THRESHOLD

\* KvStore::set
set(S, key, value) ==
    LET cmd == CmdSet(key, value)
        pos == S.writer.pos
        S1 == WriterFlush([S EXCEPT !.writer = WriterWrite(S.writer, Serialize(cmd))])
        old == Displaced(S1.index_map, key)
        S2 == [S1 EXCEPT !.index_map = (key :> CommandPos(S1.current_gen, pos, S1.writer.pos))
                                          @@ S1.index_map,
                         !.uncompacted = @ + old]
    IN IF OverThreshold(S2.uncompacted) THEN compact(S2) ELSE S2

\* Result<Option<String>> / Result<()> of an operation.
Res(kind, val) == [kind |-> kind, val |-> val]

\* A get that reads through the reader of the active segment.
get_entry_active_reader(S, key) ==
    LET cmd_pos == S.index_map[key]
        sought == ReaderSeek(S.readers[S.current_gen], cmd_pos.pos)
        bytes == Take(S.dir[cmd_pos.gen], sought, cmd_pos.len)
        r == FromReader(bytes)
    IN [store |-> [S EXCEPT !.readers[S.current_gen] = ReaderAdvance(sought, r.consumed)],
        res |-> IF ~r.ok THEN Res("SerdeError", NoVal)
                ELSE IF r.cmd.type = "Set" THEN Res("Some", r.cmd.value)
                ELSE Res("UnexpectedCommandType", NoVal)]

\* KvStore::get, the branch of a key the index holds: seek the reader of the
\* entry's generation, read len bytes, decode one Command.
get_entry(S, key) ==
    LET cmd_pos == S.index_map[key]
        sought == ReaderSeek(S.readers[cmd_pos.gen], cmd_pos.pos)
        bytes == Take(S.dir[cmd_pos.gen], sought, cmd_pos.len)
        r == FromReader(bytes)
    IN [store |-> [S EXCEPT !.readers[cmd_pos.gen] = ReaderAdvance(sought, r.consumed)],
        res |-> IF ~r.ok THEN Res("SerdeError", NoVal)
                ELSE IF r.cmd.type = "Set" THEN Res("Some", r.cmd.value)
                ELSE Res("UnexpectedCommandType", NoVal)]

\* A get that reports a missing key as an error.
get_absent_is_error(S, key) ==
    IF key \in DOMAIN S.index_map THEN get_entry(S, key)
    ELSE [store |-> S, res |-> Res("KeyNotFound", NoVal)]

\* KvStore::get
get(S, key) ==
    IF key \in DOMAIN S.index_map THEN get_entry(S, key)
    ELSE [store |-> S, res |-> Res("None", NoVal)]

\* KvStore::remove, the branch of a key the index holds: append the Remove
\* record, flush, drop the index entry.
remove_entry(S, key) ==
    LET S1 == WriterFlush([S EXCEPT !.writer = WriterWrite(S.writer, Serialize(CmdRemove(key)))])
    IN [store |-> [S1 EXCEPT !.index_map = Remap(S1.index_map, DOMAIN S1.index_map \ {key}),
                             !.uncompacted = @ + Displaced(S1.index_map, key)],
        res |-> Res("Ok", NoVal)]

\* A remove that appends its record before it looks the key up.
remove_writes_first(S, key) ==
    IF key \in DOMAIN S.index_map THEN remove_entry(S, key)
    ELSE [store |-> WriterFlush([S EXCEPT !.writer = WriterWrite(S.writer, Serialize(CmdRemove(key)))]),
          res |-> Res("KeyNotFound", NoVal)]

\* KvStore::remove
remove(S, key) ==
    IF key \in DOMAIN S.index_map THEN remove_entry(S, key)
    ELSE [store |-> S, res |-> Res("KeyNotFound", NoVal)]

\* ------------------------------------------------------------ state
VARIABLES
    dir,          \* the store directory: gen -> bytes of <gen>.log
    opened,       \* TRUE while a KvStore value exists
    writer, readers, index_map, uncompacted, current_gen,   \* its fields
    map,          \* practice1::KvStore.map, driven by the same operations
    result,       \* the last operation and what it returned
    created,      \* history: every generation a segment file was created with
    last_gen,     \* history: current_gen of the most recent KvStore value
    rm_bytes,     \* history: Remove-record bytes appended since open/compact
    snapshot      \* history: the get results of the store when it was dropped

vars == <<dir, opened, writer, readers, index_map, uncompacted, current_gen,
          map, result, created, last_gen, rm_bytes, snapshot>>

Store == [dir |-> dir, writer |-> writer, readers |-> readers, index_map |-> index_map,
          uncompacted |-> uncompacted, current_gen |-> current_gen]

\* The next state holds the store value N.
Install(N) ==
    /\ dir' = N.dir
    /\ writer' = N.writer
    /\ readers' = N.readers
    /\ index_map' = N.index_map
    /\ uncompacted' = N.uncompacted
    /\ current_gen' = N.current_gen
    /\ created' = created \cup (DOMAIN N.dir \ DOMAIN dir)
    /\ last_gen' = N.current_gen

Returned(op, key, res) == [op |-> op, key |-> key, kind |-> res.kind, val |-> res.val]

NoKey == <<>>
NoSnapshot == [k \in Keys |-> Res("None", NoVal)]

RECURSIVE SumLen(_)
SumLen(f) ==
    IF DOMAIN f = {} THEN 0
    ELSE LET x == CHOOSE y \in DOMAIN f : TRUE
         IN Len(f[x]) + SumLen(Remap(f, DOMAIN f \ {x}))

\* Total bytes of all segment files.
DiskBytes == SumLen(dir)

\* What get(key) returns in the current state.
GetResult(key) == get(Store, key).res
\* practice1::KvStore::get
MapGet(key) == IF key \in DOMAIN map THEN Res("Some", map[key]) ELSE Res("None", NoVal)

Init ==
    /\ dir = EmptyMap
    /\ opened = FALSE
    /\ writer = NewWriter
    /\ readers = EmptyMap
    /\ index_map = EmptyMap
    /\ uncompacted = 0
    /\ current_gen = 0
    /\ map = EmptyMap
    /\ result = Returned("new", NoKey, Res("Ok", NoVal))
    /\ created = {}
    /\ last_gen = 0
    /\ rm_bytes = 0
    /\ snapshot = NoSnapshot

\* KvStore::open(path)
Open ==
    /\ ~opened
    /\ OpenGen(sorted_generation_list(dir)) <= MaxGen
    /\ LET o == open(dir) IN
       IF o.ok
       THEN /\ Install(o.store)
            /\ opened' = TRUE
            /\ result' = Returned("open", NoKey, Res("Ok", NoVal))
            /\ rm_bytes' = 0
            /\ snapshot' = NoSnapshot
            /\ UNCHANGED map
       ELSE /\ result' = Returned("open", NoKey, Res("SerdeError", NoVal))
            /\ UNCHANGED <<dir, opened, writer, readers, index_map, uncompacted,
                           current_gen, map, created, last_gen, rm_bytes, snapshot>>

\* The KvStore value goes out of scope: its writer is dropped, the directory stays.
Drop ==
    /\ opened
    /\ opened' = FALSE
    /\ dir' = WriterFlush(Store).dir
    /\ snapshot' = [k \in Keys |-> GetResult(k)]
    /\ writer' = NewWriter
    /\ readers' = EmptyMap
    /\ index_map' = EmptyMap
    /\ uncompacted' = 0
    /\ current_gen' = 0
    /\ result' = Returned("drop", NoKey, Res("Ok", NoVal))
    /\ UNCHANGED <<map, created, last_gen, rm_bytes>>

\* store.set(key, value), with the compaction it may trigger
Set(key, value) ==
    /\ opened
    /\ DiskBytes <= MaxDisk
    /\ LET N == set(Store, key, value) IN
       /\ N.current_gen <= MaxGen
       /\ Install(N)
       /\ rm_bytes' = IF N.current_gen # current_gen THEN 0 ELSE rm_bytes
    /\ map' = (key :> value) @@ map
    /\ result' = Returned("set", key, Res("Ok", NoVal))
    /\ UNCHANGED <<opened, snapshot>>

\* store.get(key)
Get(key) ==
    /\ opened
    /\ key \in DOMAIN index_map => readers[index_map[key].gen].pos <= MaxReaderPos
    /\ LET g == get(Store, key) IN
       /\ Install(g.store)
       /\ result' = Returned("get", key, g.res)
    /\ UNCHANGED <<opened, map, rm_bytes, snapshot>>

\* store.remove(key)
Remove(key) ==
    /\ opened
    /\ DiskBytes <= MaxDisk
    /\ LET r == remove(Store, key) IN
       /\ Install(r.store)
       /\ result' = Returned("remove", key, r.res)
       /\ rm_bytes' = rm_bytes + (Len(r.store.dir[current_gen]) - Len(dir[current_gen]))
    /\ map' = Remap(map, DOMAIN map \ {key})
    /\ UNCHANGED <<opened, snapshot>>

\* store.compact()
Compact ==
    /\ opened
    /\ current_gen + 2 <= MaxGen
    /\ Install(compact(Store))
    /\ result' = Returned("compact", NoKey, Res("Ok", NoVal))
    /\ rm_bytes' = 0
    /\ UNCHANGED <<opened, map, snapshot>>

Next ==
    \/ Open
    \/ Drop
    \/ \E key \in Keys, value \in Values : Set(key, value)
    \/ \E key \in Keys : Get(key)
    \/ \E key \in Keys : Remove(key)
    \/ Compact

Spec == Init /\ [][Next]_vars

\* One session on a fresh directory: open, then set/get/remove only, so
\* every compaction is one that set triggers.
NextSession ==
    \/ Open
    \/ \E key \in Keys, value \in Values : Set(key, value)
    \/ \E key \in Keys : Get(key)
    \/ \E key \in Keys : Remove(key)

SpecSession == Init /\ [][NextSession]_vars

\* ------------------------------------------------------------ claims
\* The bytes the index entry of key names, as far as the file holds them.
EntryBytes(key) ==
    LET e == index_map[key]
    IN IF e.gen \in DOMAIN dir
       THEN SubSeq(dir[e.gen], e.pos + 1, Min(e.pos + e.len, Len(dir[e.gen])))
       ELSE <<>>

\* Sum of len over the index entries.
RECURSIVE SumEntryLen(_)
SumEntryLen(index) ==
    IF DOMAIN index = {} THEN 0
    ELSE LET k == CHOOSE y \in DOMAIN index : TRUE
         IN index[k].len + SumEntryLen(Remap(index, DOMAIN index \ {k}))

LiveBytes == SumEntryLen(index_map)

\* C1 (last-write-wins): on an open engine driven by set/remove/get, with
\* the compactions set triggers, get(k) returns for every key what the
\* in-memory map driven by the same operations returns.
C1_LastWriteWins ==
    opened => \A k \in Keys : GetResult(k) = MapGet(k)

\* C2 (reopen equivalence): when open is called after the engine was dropped,
\* it succeeds and the new engine gives for every key the get result the
\* dropped engine gave at the end of its session.
C2_ReopenEquivalence ==
    [][(~opened /\ result'.op = "open")
         => (opened' /\ \A k \in Keys : GetResult(k)' = snapshot[k])]_vars

\* C3 (index-locator invariant): between operations, the byte range
\* [pos, pos+len) of segment gen of every index entry is exactly one
\* serialized Set record whose key field is the entry's key.
C3_IndexLocator ==
    opened => \A k \in DOMAIN index_map :
                 /\ Len(EntryBytes(k)) = index_map[k].len
                 /\ FromReader(EntryBytes(k)).ok
                 /\ FromReader(EntryBytes(k)).cmd.type = "Set"
                 /\ FromReader(EntryBytes(k)).cmd.key = k

\* C4: remove of a key the index does not hold returns KeyNotFound and
\* changes nothing: no byte is appended (writer position and files
\* unchanged), index, uncompacted, current_gen and the segments unchanged.
C4_RemoveAbsent ==
    [][(result'.op = "remove" /\ result'.key \notin DOMAIN index_map)
         => /\ result'.kind = "KeyNotFound"
            /\ UNCHANGED <<dir, writer, readers, index_map, uncompacted, current_gen>>]_vars

\* A remove of an absent key has returned on a store that holds records.
C4_Witness ==
    /\ opened /\ result.op = "remove" /\ result.kind = "KeyNotFound"
    /\ result.key \notin DOMAIN index_map
    /\ index_map # EmptyMap
    /\ writer.pos > 0

\* C5: get of a key not in the index returns Ok(None), never an error, and
\* KeyNotFound is returned by remove only.
C5_KeyNotFoundOnlyRemove ==
    /\ result.kind = "KeyNotFound" => result.op = "remove"
    /\ (result.op = "get" /\ result.key \notin DOMAIN index_map)
          => (result.kind = "None" /\ GetResult(result.key) = Res("None", NoVal))

\* A get of an absent key has returned None on a store that holds another key.
C5_Witness ==
    /\ opened /\ result.op = "get" /\ result.kind = "None"
    /\ result.key \notin DOMAIN index_map
    /\ index_map # EmptyMap

\* A step in which compact ran (called directly or by set).
CompactStep == opened /\ opened' /\ current_gen' # current_gen

\* C6: after compact returns (called directly or triggered by set), every
\* index entry is in the compaction generation (old current_gen + 1), and
\* the readers map and the directory hold exactly the compaction segment
\* and the new active segment (old current_gen + 2).
C6_AfterCompact ==
    [][CompactStep
         => /\ current_gen' = current_gen + 2
            /\ \A k \in DOMAIN index_map' : index_map'[k].gen = current_gen + 1
            /\ DOMAIN readers' = {current_gen + 1, current_gen + 2}
            /\ DOMAIN dir' = {current_gen + 1, current_gen + 2}]_vars

\* compact has just returned on a store with live keys, after older segments existed.
C6_Witness ==
    /\ opened /\ result.op \in {"compact", "set"}
    /\ index_map # EmptyMap
    /\ \A k \in DOMAIN index_map : index_map[k].gen = current_gen - 1
    /\ DOMAIN dir = {current_gen - 1, current_gen}
    /\ Cardinality(created) >= 3

\* C7 (compact is transparent): an explicit compact() leaves the index key
\* set unchanged and get(k) returns the same before and after, for every key.
C7_CompactTransparent ==
    [][(CompactStep /\ result'.op = "compact")
         => /\ DOMAIN index_map' = DOMAIN index_map
            /\ \A k \in Keys : GetResult(k)' = GetResult(k)]_vars

\* C8 as stated (disk-space bound): the total on-disk bytes are at most
\* twice the sum of the lengths of the live records.
C8_TwiceLive ==
    opened => DiskBytes <= 2 * LiveBytes

\* C8 as amended: the total on-disk bytes are at most the live bytes plus
\* the stale counter plus the Remove-record bytes appended since the last
\* open or compact.
C8_DiskBound ==
    opened => DiskBytes <= LiveBytes + uncompacted + rm_bytes

\* Stale bytes of overwrites and removes are on disk next to live records.
C8_Witness ==
    /\ opened /\ index_map # EmptyMap
    /\ uncompacted > 0 /\ rm_bytes > 0
    /\ DiskBytes > 2 * LiveBytes

\* C9 (flush before visible): when an operation has returned, no written
\* byte is held in the writer buffer, every index entry's byte range lies
\* within the flushed file of its segment, and a get of a key whose record
\* is in the active segment reads back the value last set.
C9_FlushBeforeVisible ==
    opened =>
      /\ writer.buf = <<>>
      /\ writer.pos = Len(dir[current_gen])
      /\ \A k \in DOMAIN index_map :
           /\ index_map[k].gen \in DOMAIN dir
           /\ index_map[k].pos + index_map[k].len <= Len(dir[index_map[k].gen])
           /\ index_map[k].gen = current_gen => GetResult(k) = MapGet(k)

\* A set and a remove have appended to the active segment and a key lives in it.
C9_Witness ==
    /\ opened /\ result.op \in {"set", "remove"} /\ result.kind = "Ok"
    /\ rm_bytes > 0
    /\ \E k \in DOMAIN index_map :
         /\ index_map[k].gen = current_gen
         /\ index_map[k].pos + index_map[k].len = Len(dir[current_gen])

\* C10 (generations increase, never reused): every open and every compact
\* leaves current_gen strictly greater than it was in the most recent
\* engine, and no segment file is created with a generation that a segment
\* was created with before.
C10_GenerationsIncrease ==
    [][/\ (opened' /\ (~opened \/ current_gen' # current_gen)) => current_gen' > last_gen
       /\ \A g \in DOMAIN dir' \ DOMAIN dir : g \notin created]_vars

\* An engine was reopened after a compaction deleted earlier generations.
C10_Witness ==
    /\ opened /\ result.op = "open"
    /\ created \ DOMAIN dir # {}
    /\ Cardinality(DOMAIN dir) = 3

\* C11 (one writer, on the newest segment): between operations the writer
\* stands at the end of segment current_gen, current_gen is a segment of the
\* readers map and of the directory, and it is strictly greater than every
\* other generation in either; segments are keyed by generation, one each.
C11_WriterIsNewest ==
    opened =>
      /\ current_gen \in DOMAIN dir /\ current_gen \in DOMAIN readers
      /\ writer.pos = Len(dir[current_gen])
      /\ \A g \in (DOMAIN dir \cup DOMAIN readers) \ {current_gen} : g < current_gen
      /\ DOMAIN readers = DOMAIN dir

\* The writer has appended to an active segment that has an older segment beside it.
C11_Witness ==
    /\ opened /\ writer.pos > 0
    /\ Cardinality(DOMAIN dir) >= 2
    /\ \E k \in DOMAIN index_map : index_map[k].gen < current_gen

\* C12 (reader position tracking): in every state each reader's pos is the
\* absolute offset of the next byte that reader will read.
C12_ReaderPosIsOffset ==
    opened => \A g \in DOMAIN readers : readers[g].pos = readers[g].off

\* C13 (compaction trigger): a set runs compact exactly when uncompacted,
\* after the displaced entry's length is added, is strictly greater than
\* COMPACTION_THRESHOLD, so after a set uncompacted is at most the
\* threshold; remove and open never run compact.
C13_CompactionTrigger ==
    [][/\ result'.op = "set" =>
            /\ (current_gen' # current_gen)
                  <=> (uncompacted + (IF result'.key \in DOMAIN index_map
                                      THEN index_map[result'.key].len ELSE 0)
                         > COMPACTION_THRESHOLD)
            /\ uncompacted' <= COMPACTION_THRESHOLD
       /\ result'.op = "remove" =>
            /\ current_gen' = current_gen
            /\ DOMAIN dir' = DOMAIN dir
            /\ uncompacted' >= uncompacted
       /\ (result'.op = "open" /\ opened') =>
            /\ DOMAIN dir' = DOMAIN dir \cup {current_gen'}
            /\ \A g \in DOMAIN dir : dir'[g] = dir[g]]_vars

\* A remove has left uncompacted above the threshold, after a set had compacted.
C13_Witness ==
    /\ opened /\ result.op = "remove" /\ result.kind = "Ok"
    /\ uncompacted > COMPACTION_THRESHOLD
    /\ current_gen >= 3

\* C14 (stale-counter accounting): between operations, the bytes of all
\* segment files minus the index entries' lengths minus uncompacted are
\* exactly the Remove-record bytes appended by remove since the last open
\* or compact.
C14_StaleAccounting ==
    opened => DiskBytes - LiveBytes - uncompacted = rm_bytes

\* A remove has appended its record next to a live record, after an open
\* or compact that had reset the count of Remove bytes.
C14_Witness ==
    /\ opened /\ result.op = "remove" /\ result.kind = "Ok"
    /\ rm_bytes > 0 /\ LiveBytes > 0 /\ uncompacted > 0
    /\ current_gen >= 2

\* a is a prefix of b.
IsPrefix(a, b) == Len(a) <= Len(b) /\ SubSeq(b, 1, Len(a)) = a

\* C15 (segment immutability): a step never changes bytes a segment file
\* already holds; only the active segment grows, by append in set and
\* remove; a segment created with content is the compaction segment of a
\* compact; open changes no existing segment and creates exactly one new,
\* empty segment, of generation (largest existing, or 0) + 1.
C15_SegmentsImmutable ==
    [][/\ \A g \in DOMAIN dir \cap DOMAIN dir' :
            /\ IsPrefix(dir[g], dir'[g])
            /\ dir'[g] # dir[g] => (g = current_gen /\ result'.op \in {"set", "remove"})
       /\ \A g \in DOMAIN dir' \ DOMAIN dir :
            dir'[g] # <<>> => (CompactStep /\ g = current_gen + 1)
       /\ DOMAIN dir \ DOMAIN dir' # {} => CompactStep
       /\ (result'.op = "open" /\ opened') =>
            /\ \A g \in DOMAIN dir : g \in DOMAIN dir' /\ dir'[g] = dir[g]
            /\ \E n \in DOMAIN dir' :
                 /\ DOMAIN dir' \ DOMAIN dir = {n}
                 /\ dir'[n] = <<>>
                 /\ \A g \in DOMAIN dir : g < n
                 /\ n = 1 \/ n - 1 \in DOMAIN dir]_vars

\* The active segment has been appended to twice while a compaction segment lies beside it.
C15_Witness ==
    /\ opened /\ result.op \in {"set", "remove"}
    /\ Len(dir[current_gen]) >= 8
    /\ \E g \in DOMAIN dir : g < current_gen /\ dir[g] # <<>>

\* C16 (reader availability): between operations the generation of every
\* index entry is a key of the readers map and its segment file exists.
C16_ReaderAvailable ==
    opened => \A k \in DOMAIN index_map :
                 index_map[k].gen \in DOMAIN readers /\ index_map[k].gen \in DOMAIN dir

\* The index names records in two different segments.
C16_Witness ==
    /\ opened
    /\ \E k1, k2 \in DOMAIN index_map : index_map[k1].gen < index_map[k2].gen

\* C17 (compacted layout): when compact has run, uncompacted is 0, the new
\* active segment is empty, the index entries lie back to back from offset
\* 0 of the compaction segment in key order, each holding the bytes of the
\* live record it held before, and the size of the compaction segment and
\* of the whole directory is the sum of the entries' lengths.
C17_CompactedLayout ==
    [][CompactStep =>
         /\ uncompacted' = 0
         /\ dir'[current_gen'] = <<>>
         /\ DOMAIN index_map' = DOMAIN index_map \cup
                                   (IF result'.op = "set" THEN {result'.key} ELSE {})
         /\ \A k \in DOMAIN index_map' :
              /\ index_map'[k].gen = current_gen' - 1
              /\ index_map'[k].pos =
                   SumEntryLen(Remap(index_map',
                       {j \in DOMAIN index_map' :
                          \E m, n \in 1..Len(KeyOrder) :
                             m < n /\ KeyOrder[m] = j /\ KeyOrder[n] = k}))
              /\ EntryBytes(k)' = (IF result'.op = "set" /\ result'.key = k
                                   THEN Serialize(CmdSet(k, map'[k]))
                                   ELSE EntryBytes(k))
         /\ Len(dir'[current_gen' - 1]) = LiveBytes'
         /\ DiskBytes' = LiveBytes']_vars

\* C18 (get is read-only): a get leaves the index, uncompacted, current_gen,
\* the writer, the set of segments and their contents unchanged, and it
\* repositions no reader but the one of the entry's generation (none when
\* the key is absent).
C18_GetReadOnly ==
    [][result'.op = "get" =>
         /\ UNCHANGED <<dir, writer, index_map, uncompacted, current_gen>>
         /\ DOMAIN readers' = DOMAIN readers
         /\ \A g \in DOMAIN readers :
              readers'[g] # readers[g] =>
                 (result'.key \in DOMAIN index_map /\ g = index_map[result'.key].gen)]_vars

\* A get has read a record from a segment that is not the active one.
C18_Witness ==
    /\ opened /\ result.op = "get" /\ result.kind = "Some"
    /\ index_map[result.key].gen < current_gen
    /\ readers[index_map[result.key].gen].off > 0

\* ------------------------------------------------------------ the loader alone
\* The serialized form of every Command over the model's keys and values.
AllRecords ==
    {Serialize(CmdSet(k, v)) : k \in Keys, v \in Values} \cup {Serialize(CmdRemove(k)) : k \in Keys}

\* The logs of at most n records, written back to back.
RECURSIVE Logs(_)
Logs(n) ==
    IF n = 0 THEN {<<>>}
    ELSE LET shorter == Logs(n - 1)
         IN shorter \cup {l \o r : l \in shorter, r \in AllRecords}

\* A directory whose only segment, 1.log, is any log of Commands, before open.
InitLoad ==
    /\ dir \in {(1 :> l) : l \in Logs(MaxLogRecords)}
    /\ opened = FALSE
    /\ writer = NewWriter
    /\ readers = EmptyMap
    /\ index_map = EmptyMap
    /\ uncompacted = 0
    /\ current_gen = 0
    /\ map = EmptyMap
    /\ result = Returned("new", NoKey, Res("Ok", NoVal))
    /\ created = {1}
    /\ last_gen = 1
    /\ rm_bytes = 0
    /\ snapshot = NoSnapshot

NextLoad == Open

SpecLoad == InitLoad /\ [][NextLoad]_vars

\* The records of a log from offset pos: [start, end) and the Command.
RECURSIVE RecordsFrom(_, _)
RecordsFrom(file, pos) ==
    IF pos >= Len(file) THEN {}
    ELSE LET d == Decode(file, pos + 1)
         IN IF ~d.ok THEN {}
            ELSE {[start |-> pos, end |-> d.next - 1, cmd |-> d.cmd]}
                   \cup RecordsFrom(file, d.next - 1)

\* The Remove records of a log whose key has no index entry when replay meets them.
DanglingRemoves(file) ==
    {r \in RecordsFrom(file, 0) :
        /\ r.cmd.type = "Remove"
        /\ r.cmd.key \notin DOMAIN load(1, SubSeq(file, 1, r.start), EmptyMap).index_map}

\* C19 (dangling Remove): when replay meets a Remove record of a key that
\* has no index entry at that point, load does not fail, the index after
\* the record is the index before it, the stale count grows by that
\* record's own length only, and the open succeeds.
C19_DanglingRemoveTolerated ==
    result.op = "open" =>
      /\ opened /\ result.kind = "Ok"
      /\ \A r \in DanglingRemoves(dir[1]) :
           LET before == load(1, SubSeq(dir[1], 1, r.start), EmptyMap)
               after == load(1, SubSeq(dir[1], 1, r.end), EmptyMap)
           IN /\ after.ok
              /\ after.index_map = before.index_map
              /\ after.uncompacted = before.uncompacted + (r.end - r.start)
      /\ index_map = load(1, dir[1], EmptyMap).index_map
      /\ uncompacted = Len(dir[1]) - LiveBytes

\* An open has replayed a log with a dangling Remove and a live key.
C19_Witness ==
    /\ opened /\ result.op = "open" /\ result.kind = "Ok"
    /\ DanglingRemoves(dir[1]) # {}
    /\ index_map # EmptyMap

====
